---- MODULE Spec2Model ----
(***************************************************************************)
(* Model of the tattoo-data-collector server.  Two variants of the server  *)
(* exist in the repository: the hosted variant (src/server.js, images on   *)
(* Cloudinary, duration in timeInHours) and the local-disk variant         *)
(* (src/unnamed/part_001, images under uploads/, duration in               *)
(* timeInMinutes).  A JavaScript string is a sequence of one-character     *)
(* strings; a JavaScript number is a record [k, v]: k = "num" with v the   *)
(* value in thousandths, k = "nan", or k = "inf" with v the sign.          *)
(***************************************************************************)
EXTENDS Integers, Sequences, FiniteSets, Bags, TLC

\* ------------------------------------------------------------------------
\* Bounds of the model
\* ------------------------------------------------------------------------
MaxRecords == 2     \* records the store may hold
MaxBlobs == 3       \* blobs the blob store may hold
MaxClock == 1       \* values Date.now() takes: 0..MaxClock

\* ------------------------------------------------------------------------
\* JavaScript values
\* ------------------------------------------------------------------------
\* thousandths per unit of the fixed-point numbers (three decimal places)
Milli == 10 * 10 * 10

undefined == <<"undefined">>

NaN == [k |-> "nan", v |-> 0]
Infinity(sign) == [k |-> "inf", v |-> sign]
Num(n) == [k |-> "num", v |-> n]

isNaN(x) == x.k = "nan"

\* !x for a form field: absent, or the empty string
Falsy(x) == x = undefined \/ x = <<>>

Digits == <<"0", "1", "2", "3", "4", "5", "6", "7", "8", "9">>
HexDigits == Digits \o <<"a", "b", "c", "d", "e", "f">>
Upper == <<"A", "B", "C", "D", "E", "F", "G", "I", "J", "N", "O", "P", "X">>
Lower == <<"a", "b", "c", "d", "e", "f", "g", "i", "j", "n", "o", "p", "x">>

Range(s) == {s[i] : i \in 1..Len(s)}
IndexOf(c, s) == CHOOSE i \in 1..Len(s) : s[i] = c

toLowerChar(c) == IF c \in Range(Upper) THEN Lower[IndexOf(c, Upper)] ELSE c
toLowerCase(s) == [i \in 1..Len(s) |-> toLowerChar(s[i])]

IsDigit(c) == c \in Range(Digits)
DigitVal(c) == IndexOf(c, Digits) - 1
IsHexDigit(c) == toLowerChar(c) \in Range(HexDigits)
HexVal(c) == IndexOf(toLowerChar(c), HexDigits) - 1

Drop(s, n) == IF n >= Len(s) THEN <<>> ELSE SubSeq(s, n + 1, Len(s))
Take(s, n) == IF n >= Len(s) THEN s ELSE SubSeq(s, 1, n)
StartsWith(s, p) == Len(s) >= Len(p) /\ SubSeq(s, 1, Len(p)) = p

\* RegExp.prototype.test for a pattern that is an alternation of literals
\* without anchors: some alternative occurs somewhere in s
Contains(s, p) == \E i \in 0..(Len(s) - Len(p)) : SubSeq(s, i + 1, i + Len(p)) = p
RegexTest(alternatives, s) == \E p \in alternatives : Contains(s, p)

\* String.prototype.trim and the leading-whitespace skip of parseFloat/parseInt
WhiteSpace == {" ", "\t"}
RECURSIVE TrimLeft(_)
TrimLeft(s) == IF s # <<>> /\ s[1] \in WhiteSpace THEN TrimLeft(Tail(s)) ELSE s
RECURSIVE TrimRight(_)
TrimRight(s) ==
  IF s # <<>> /\ s[Len(s)] \in WhiteSpace THEN TrimRight(SubSeq(s, 1, Len(s) - 1)) ELSE s
trim(s) == TrimRight(TrimLeft(s))

\* String.prototype.split on a one-character separator
RECURSIVE split(_, _)
split(s, sep) ==
  IF \E i \in 1..Len(s) : s[i] = sep
  THEN LET i == CHOOSE j \in 1..Len(s) : s[j] = sep /\ \A h \in 1..(j - 1) : s[h] # sep
       IN <<Take(s, i - 1)>> \o split(Drop(s, i), sep)
  ELSE <<s>>

\* length of the longest prefix of s made of decimal (hexadecimal) digits
RECURSIVE DigitPrefixLen(_)
DigitPrefixLen(s) == IF s # <<>> /\ IsDigit(s[1]) THEN 1 + DigitPrefixLen(Tail(s)) ELSE 0
RECURSIVE HexPrefixLen(_)
HexPrefixLen(s) == IF s # <<>> /\ IsHexDigit(s[1]) THEN 1 + HexPrefixLen(Tail(s)) ELSE 0

RECURSIVE Pow(_, _)
Pow(b, e) == IF e = 0 THEN 1 ELSE b * Pow(b, e - 1)

\* the number a string of decimal (hexadecimal) digits denotes
RECURSIVE DecValue(_)
DecValue(s) ==
  IF s = <<>> THEN 0 ELSE DecValue(SubSeq(s, 1, Len(s) - 1)) * 10 + DigitVal(s[Len(s)])
RECURSIVE HexValue(_)
HexValue(s) ==
  IF s = <<>> THEN 0 ELSE HexValue(SubSeq(s, 1, Len(s) - 1)) * 16 + HexVal(s[Len(s)])

\* m * 10^p in integers (p may be negative: digits below a thousandth are cut)
Scale10(m, p) == IF p >= 0 THEN m * Pow(10, p) ELSE m \div Pow(10, 0 - p)

Negate(x) == IF x.k = "nan" THEN x ELSE [x EXCEPT !.v = 0 - x.v]

\* the optional sign in front of a numeric literal
HasSign(s) == s # <<>> /\ s[1] \in {"+", "-"}
Unsigned(s) == IF HasSign(s) THEN Tail(s) ELSE s
Signed(s, x) == IF HasSign(s) /\ s[1] = "-" THEN Negate(x) ELSE x

\* the exponent part of a decimal literal at the head of s, 0 when there is none
ExponentOf(s) ==
  IF s # <<>> /\ s[1] \in {"e", "E"}
  THEN LET r == Tail(s)
           d == Unsigned(r)
           n == DigitPrefixLen(d)
       IN IF n = 0 THEN 0
          ELSE LET e == DecValue(Take(d, n))
               IN IF HasSign(r) /\ r[1] = "-" THEN 0 - e ELSE e
  ELSE 0

\* parseFloat of an unsigned string: the longest prefix that is a decimal literal
ParseUnsignedFloat(s) ==
  IF StartsWith(s, <<"I", "n", "f", "i", "n", "i", "t", "y">>) THEN Infinity(1)
  ELSE LET ni == DigitPrefixLen(s)
           r1 == Drop(s, ni)
           dot == r1 # <<>> /\ r1[1] = "."
           nf == IF dot THEN DigitPrefixLen(Tail(r1)) ELSE 0
           r2 == IF dot THEN Drop(r1, nf + 1) ELSE r1
           m == DecValue(Take(s, ni) \o (IF dot THEN Take(Tail(r1), nf) ELSE <<>>))
       IN IF ni + nf = 0 THEN NaN
          ELSE Num(Scale10(m, 3 - nf + ExponentOf(r2)))

\* parseFloat(x); an absent field is converted to the string "undefined" first
parseFloat(x) ==
  IF x = undefined THEN NaN
  ELSE LET t == TrimLeft(x) IN Signed(t, ParseUnsignedFloat(Unsigned(t)))

\* parseInt(x) without a radix: decimal, or hexadecimal after 0x / 0X
parseInt(x) ==
  IF x = undefined THEN NaN
  ELSE LET t == TrimLeft(x)
           u == Unsigned(t)
           hex == StartsWith(u, <<"0", "x">>) \/ StartsWith(u, <<"0", "X">>)
           d == IF hex THEN Drop(u, 2) ELSE u
           n == IF hex THEN HexPrefixLen(d) ELSE DigitPrefixLen(d)
       IN IF n = 0 THEN NaN
          ELSE Signed(t, Num(Milli * (IF hex THEN HexValue(Take(d, n))
                                             ELSE DecValue(Take(d, n)))))

\* path.extname: from the last "." of the name to its end; "" when there is no
\* "." or the only "." is the first character
extname(name) ==
  IF \E i \in 2..Len(name) : name[i] = "."
  THEN LET i == CHOOSE j \in 2..Len(name) :
                  name[j] = "." /\ \A h \in (j + 1)..Len(name) : name[h] # "."
       IN Drop(name, i - 1)
  ELSE <<>>

\* ------------------------------------------------------------------------
\* Requests: the multipart submissions a client may send
\* ------------------------------------------------------------------------
Str150 == <<"1", "5", "0", ".", "0", "0">>
Str2p5 == <<"2", ".", "5">>
StrNeg5 == <<"-", "5">>
StrAbc == <<"a", "b", "c">>
StrInf == <<"I", "n", "f", "i", "n", "i", "t", "y">>
StrTags == <<"a", ",", " ", "b", ",", ",">>

NoFile == [present |-> FALSE, originalname |-> <<>>, mimetype |-> <<>>]
File(name, mime) == [present |-> TRUE, originalname |-> name, mimetype |-> mime]
PhotoJpg == File(<<"p", ".", "J", "P", "G">>,
                 <<"i", "m", "a", "g", "e", "/", "j", "p", "e", "g">>)
NotesTxt == File(<<"n", ".", "t", "x", "t">>,
                 <<"t", "e", "x", "t", "/", "p", "l", "a", "i", "n">>)
GifTxt == File(<<"g", ".", "t", "x", "t">>,
               <<"i", "m", "a", "g", "e", "/", "g", "i", "f">>)

Files == {NoFile, PhotoJpg, NotesTxt, GifTxt}
Prices == {undefined, Str150, StrNeg5, StrAbc, StrInf}
Times == {<<>>, Str2p5, StrNeg5, StrAbc}
TagStrings == {undefined, StrTags}

Request(f, p, t, g) == [file |-> f, price |-> p, time |-> t, tags |-> g]

\* every input varied on its own against a well-formed submission, and the
\* submissions that break two rules at once
Requests ==
    {Request(f, Str150, Str2p5, undefined) : f \in Files}
    \cup {Request(PhotoJpg, p, Str2p5, undefined) : p \in Prices}
    \cup {Request(PhotoJpg, Str150, t, undefined) : t \in Times}
    \cup {Request(PhotoJpg, Str150, Str2p5, g) : g \in TagStrings}
    \cup {Request(NoFile, undefined, Str2p5, undefined),
          Request(NotesTxt, StrAbc, StrAbc, undefined),
          Request(PhotoJpg, undefined, StrAbc, undefined)}

\* ------------------------------------------------------------------------
\* State
\* ------------------------------------------------------------------------
VARIABLES
  variant,     \* "hosted" (src/server.js) or "local" (src/unnamed/part_001)
  now,         \* Date.now()
  listening,   \* app.listen has called back
  conn,        \* connectWithRetry: the call in progress and its locals
  records,     \* the Tattoo collection: a set of documents
  blobs,       \* the blob store: the locators of the stored images
  req,         \* the POST /api/tattoos request in progress, or the one just answered
  last,        \* the answer of another route, when it is the latest answer sent
  page,        \* the page of src/public/app.js: its elements and pending calls
  eval         \* a function taken on its own: its argument and what it returned

vars == <<variant, now, listening, conn, records, blobs, req, last, page, eval>>
others == <<page, eval>>
srv == <<variant, now, records, blobs, req, last>>
startup == <<listening, conn>>

\* ------------------------------------------------------------------------
\* Startup: app.listen, then connectWithRetry
\* ------------------------------------------------------------------------
maxRetries == 5

Min(a, b) == IF a <= b THEN a ELSE b

\* mutant of retryDelay: the exponent is the number of the next attempt
retryDelay_nextAttempt(retryCount) == Min(Pow(2, retryCount + 1) * 1000, 30000)

\* Math.min(Math.pow(2, retryCount) * 1000, 30000)
retryDelay(retryCount) == Min(Pow(2, retryCount) * 1000, 30000)

\* the connection once no call of connectWithRetry is left: the locals of the
\* settled call are gone
Settled(state) == [state |-> state, retryCount |-> 0, retryDelay |-> 0]

\* connectWithRetry(retryCount): retryDelay is computed, then mongoose.connect
\* is called and is pending
connectWithRetry(retryCount) ==
  conn' = [state |-> "connecting", retryCount |-> retryCount,
           retryDelay |-> retryDelay(retryCount)]

\* the callback of app.listen: the port is open, the first attempt starts
Listen ==
  /\ ~listening
  /\ listening' = TRUE
  /\ connectWithRetry(0)
  /\ UNCHANGED <<srv, others>>

\* .then of mongoose.connect
ConnectResolve ==
  /\ conn.state = "connecting"
  /\ conn' = Settled("connected")
  /\ UNCHANGED <<listening, srv, others>>

\* mutant of ConnectReject: retryCount <= maxRetries, one retry too many
ConnectReject_oneMore ==
  /\ conn.state = "connecting"
  /\ conn' = IF conn.retryCount <= maxRetries THEN [conn EXCEPT !.state = "waiting"]
             ELSE Settled("gaveup")
  /\ UNCHANGED <<listening, srv, others>>

\* .catch of mongoose.connect: setTimeout(..., retryDelay), or give up
ConnectReject ==
  /\ conn.state = "connecting"
  /\ conn' = IF conn.retryCount < maxRetries THEN [conn EXCEPT !.state = "waiting"]
             ELSE Settled("gaveup")
  /\ UNCHANGED <<listening, srv, others>>

\* the setTimeout callback: connectWithRetry(retryCount + 1, maxRetries)
RetryTimer ==
  /\ conn.state = "waiting"
  /\ connectWithRetry(conn.retryCount + 1)
  /\ UNCHANGED <<listening, srv, others>>

\* Date.now() moves on
Tick ==
  /\ now < MaxClock
  /\ now' = now + 1
  /\ UNCHANGED <<variant, records, blobs, req, last, startup, others>>

\* a Tattoo query or save can succeed only on an open connection
dbUp == conn.state = "connected"

\* ------------------------------------------------------------------------
\* The stores
\* ------------------------------------------------------------------------
\* a blob locator: a Cloudinary secure_url, or a path under /uploads/
Locator(host, n, ext) == [host |-> host, n |-> n, ext |-> ext]

\* the locator a Cloudinary upload returns: an asset name not yet in use
secure_url == Locator("cloudinary", CHOOSE n \in 0..Cardinality(blobs) :
                                      \A b \in blobs : b.host = "cloudinary" => b.n # n, <<>>)

\* multer.diskStorage filename: Date.now() + path.extname(file.originalname)
filename(file) == Locator("uploads", now, extname(file.originalname))

\* the _id of a new document: an ObjectId no stored document has
ObjectId == CHOOSE n \in 0..Cardinality(records) : \A d \in records : d._id # n

\* new Tattoo({imageUrl, price, <duration>, tags}): _id and createdAt are set
\* by the constructor (createdAt: default Date.now)
Tattoo(imageUrl, price, time, tags) ==
  [_id |-> ObjectId, imageUrl |-> imageUrl, price |-> price, time |-> time,
   tags |-> tags, createdAt |-> now]

\* schema validation run by save(): the required paths are there and a Number
\* path holds a number (casting NaN to Number fails)
SchemaValid(doc) == ~isNaN(doc.price) /\ ~isNaN(doc.time)

\* mutant of parseTags: the empty pieces are filtered out
parseTags_dropEmpty(tags) ==
  IF Falsy(tags) THEN <<>>
  ELSE LET parts == split(tags, ",")
       IN SelectSeq([i \in 1..Len(parts) |-> trim(parts[i])], LAMBDA p : p # <<>>)

\* tags ? tags.split(',').map(tag => tag.trim()) : []
parseTags(tags) ==
  IF Falsy(tags) THEN <<>>
  ELSE LET parts == split(tags, ",") IN [i \in 1..Len(parts) |-> trim(parts[i])]

\* JSON.stringify of a number: a non-finite number is written as null
jsonNumber(x) == IF x.k = "num" THEN x ELSE [k |-> "null", v |-> 0]
toJSON(doc) == [doc EXCEPT !.price = jsonNumber(doc.price), !.time = jsonNumber(doc.time)]

\* ------------------------------------------------------------------------
\* POST /api/tattoos
\* ------------------------------------------------------------------------
\* res.status(status).json({error}) and res.status(201).json({success, tattoo})
Error(status, message) == [status |-> status, error |-> message, tattoo |-> {}]
Created(doc) == [status |-> 201, error |-> "", tattoo |-> {toJSON(doc)}]

\* the multer fileFilter: /jpeg|jpg|png|gif/ tested on the lower-cased
\* extension and on the MIME type
filetypes == {<<"j", "p", "e", "g">>, <<"j", "p", "g">>, <<"p", "n", "g">>, <<"g", "i", "f">>}
fileFilter(file) ==
  LET ext == RegexTest(filetypes, toLowerCase(extname(file.originalname)))
      mimetype == RegexTest(filetypes, file.mimetype)
  IN mimetype /\ ext

\* the global error handler, for a path under /api/
errorHandler == Error(500, "Internal server error")

\* the handler of the hosted variant up to its first await: the responses
\* it sends, none when it goes on to the Cloudinary upload
validateHosted(r) ==
  IF ~r.file.present THEN <<Error(400, "No image uploaded")>>
  ELSE IF isNaN(parseFloat(r.time)) THEN <<Error(400, "Time must be a valid number")>>
  ELSE IF Falsy(r.price) \/ Falsy(r.time) THEN <<Error(400, "Price and time are required")>>
  ELSE <<>>

\* the handler of the local-disk variant up to new Tattoo
validateLocal(r) ==
  IF ~r.file.present THEN <<Error(400, "No image uploaded")>>
  ELSE IF Falsy(r.price) \/ Falsy(r.time) THEN <<Error(400, "Price and time are required")>>
  ELSE <<>>

Answer(route, id, status, message, list, files, missingFiles) ==
  [route |-> route, id |-> id, status |-> status, error |-> message, list |-> list,
   files |-> files, missingFiles |-> missingFiles]

NoAnswer == Answer("", 0, 0, "", <<>>, {}, {})

\* what the hosted handler computes from a request alone, before its first
\* await: the response it sends if any, and the parsed fields of the document
hostedBody ==
  [r \in Requests |->
     [res |-> IF r.file.present /\ ~fileFilter(r.file) THEN <<errorHandler>>
              ELSE validateHosted(r),
      price |-> parseFloat(r.price),
      time |-> parseFloat(r.time),
      tags |-> parseTags(r.tags)]]

\* the same for the local-disk variant, which stores the duration with parseInt
localBody ==
  [r \in Requests |->
     [accepted |-> r.file.present /\ fileFilter(r.file),
      res |-> validateLocal(r),
      price |-> parseFloat(r.price),
      time |-> parseInt(r.time),
      tags |-> parseTags(r.tags)]]

Idle == [pc |-> "idle", in |-> Request(NoFile, undefined, undefined, undefined),
         doc |-> {}, res |-> <<>>]

\* only the latest answer is kept: a request answered before it is forgotten
forget == IF req.pc = "done" THEN Idle ELSE req

\* room for one more record and one more blob
Room == Cardinality(records) < MaxRecords /\ Cardinality(blobs) < MaxBlobs

\* a request arrives at the hosted variant: multer (memory storage) parses it,
\* then the handler runs to its first await
HandlePost(r) ==
  /\ variant = "hosted" /\ listening /\ req.pc \in {"idle", "done"} /\ Room
  /\ LET res == hostedBody[r].res
     IN req' = [pc |-> IF res = <<>> THEN "uploading" ELSE "done",
                in |-> r, doc |-> {}, res |-> res]
  /\ last' = NoAnswer
  /\ UNCHANGED <<variant, now, records, blobs, startup>>

\* the same, sent by some client other than the page
PostTattooHosted(r) == HandlePost(r) /\ UNCHANGED others

\* cloudinary.uploader.upload settles; on success the document is built and
\* save() is called
HandleUpload(ok) ==
  /\ req.pc = "uploading"
  /\ IF ok
     THEN /\ blobs' = blobs \cup {secure_url}
          /\ req' = [req EXCEPT !.pc = "saving",
                        !.doc = {Tattoo(secure_url, hostedBody[req.in].price,
                                        hostedBody[req.in].time,
                                        hostedBody[req.in].tags)}]
     ELSE /\ blobs' = blobs
          /\ req' = [req EXCEPT !.pc = "done",
                        !.res = Append(@, Error(500, "Failed to process upload"))]
  /\ UNCHANGED <<variant, now, records, last, startup>>

UploadSettle(ok) == HandleUpload(ok) /\ UNCHANGED others

\* a request arrives at the local-disk variant: multer writes the accepted
\* file under uploads/, then the handler runs to await newTattoo.save()
PostTattooLocal(r, diskOk) ==
  /\ variant = "local" /\ listening /\ req.pc \in {"idle", "done"} /\ Room
  /\ LET stored == localBody[r].accepted /\ diskOk
         res == IF r.file.present /\ ~stored THEN <<errorHandler>> ELSE localBody[r].res
     IN /\ blobs' = IF stored THEN blobs \cup {filename(r.file)} ELSE blobs
        /\ req' = [pc |-> IF res = <<>> THEN "saving" ELSE "done",
                   in |-> r,
                   doc |-> IF res = <<>>
                           THEN {Tattoo(filename(r.file), localBody[r].price,
                                        localBody[r].time, localBody[r].tags)}
                           ELSE {},
                   res |-> res]
  /\ last' = NoAnswer
  /\ UNCHANGED <<variant, now, records, startup, others>>

\* mutant of saveError: the catch answers without setting the status
saveError_noStatus == Error(200, "Failed to process upload")

\* what the catch around save() answers
saveError == IF variant = "hosted" THEN Error(500, "Failed to process upload")
             ELSE Error(500, "Server error")

\* mutant of SaveSettle: the catch destroys the uploaded image
SaveSettle_rollback(ok) ==
  /\ req.pc = "saving"
  /\ LET doc == CHOOSE d \in req.doc : TRUE
     IN IF ok /\ dbUp /\ SchemaValid(doc)
        THEN /\ records' = records \cup {doc}
             /\ blobs' = blobs
             /\ req' = [req EXCEPT !.pc = "done", !.res = Append(@, Created(doc))]
        ELSE /\ records' = records
             /\ blobs' = blobs \ {doc.imageUrl}
             /\ req' = [req EXCEPT !.pc = "done", !.res = Append(@, saveError)]
  /\ UNCHANGED <<variant, now, last, startup, others>>

\* newTattoo.save() settles: the document is inserted and 201 is sent, or
\* the rejection is caught
HandleSave(ok) ==
  /\ req.pc = "saving"
  /\ LET doc == CHOOSE d \in req.doc : TRUE
     IN IF ok /\ dbUp /\ SchemaValid(doc)
        THEN /\ records' = records \cup {doc}
             /\ req' = [req EXCEPT !.pc = "done", !.res = Append(@, Created(doc))]
        ELSE /\ records' = records
             /\ req' = [req EXCEPT !.pc = "done", !.res = Append(@, saveError)]
  /\ UNCHANGED <<variant, now, blobs, last, startup>>

SaveSettle(ok) == HandleSave(ok) /\ UNCHANGED others

\* ------------------------------------------------------------------------
\* The other routes
\* ------------------------------------------------------------------------
\* Tattoo.find(): every document of the collection
find == records

\* mutant of sortOrder: { createdAt: 1 }, oldest first
sortOrder_ascending(a, b) == a.createdAt <= b.createdAt

\* .sort({ createdAt: -1 }): a goes before b
sortOrder(a, b) == a.createdAt >= b.createdAt

\* the orders in which a sorted query may return the documents S
sort(S) ==
  {l \in [1..Cardinality(S) -> S] :
     /\ Range(l) = S
     /\ \A i, j \in 1..Cardinality(S) : i < j => sortOrder(l[i], l[j])}

\* GET /api/tattoos
\* app.get('/api/tattoos'): the sorted query, answered 200 with the list or
\* 500 when it rejects
HandleList(ok) ==
  /\ listening
  /\ IF ok /\ dbUp
     THEN \E tattoos \in sort(find) :
            last' = Answer("GET /api/tattoos", 0, 200, "",
                           [i \in 1..Len(tattoos) |-> toJSON(tattoos[i])], {}, {})
     ELSE last' = Answer("GET /api/tattoos", 0, 500, "Server error", <<>>, {}, {})
  /\ req' = forget
  /\ UNCHANGED <<variant, now, records, blobs, startup>>

\* mutant of GetTattoos: a listing that finds the attempts exhausted starts
\* connectWithRetry again
GetTattoos_reconnects(ok) ==
  /\ listening
  /\ IF ok /\ dbUp
     THEN \E tattoos \in sort(find) :
            last' = Answer("GET /api/tattoos", 0, 200, "",
                           [i \in 1..Len(tattoos) |-> toJSON(tattoos[i])], {}, {})
     ELSE last' = Answer("GET /api/tattoos", 0, 500, "Server error", <<>>, {}, {})
  /\ req' = forget
  /\ IF conn.state = "gaveup" THEN connectWithRetry(0) ELSE conn' = conn
  /\ UNCHANGED <<variant, now, records, blobs, listening, others>>

\* the same, asked by some client other than the page
GetTattoos(ok) == HandleList(ok) /\ UNCHANGED others

\* the 404 handler, for a path under /api/ that no route matches
notFound(route, id) == Answer(route, id, 404, "API endpoint not found", <<>>, {}, {})

\* DELETE /api/tattoos/:id, sent by the delete button of the client: no
\* route of either server matches it
HandleDelete(id) ==
  /\ listening
  /\ last' = notFound("DELETE /api/tattoos/:id", id)
  /\ req' = forget
  /\ UNCHANGED <<variant, now, records, blobs, startup>>

DeleteTattoo(id) == HandleDelete(id) /\ UNCHANGED others

\* mutant of fileEntry: used is looked up in the blob store
fileEntry_lookedUp(tattoo) ==
  [name |-> <<tattoo.imageUrl.n, tattoo.imageUrl.ext>>, path |-> tattoo.imageUrl,
   used |-> tattoo.imageUrl \in blobs, tattooId |-> tattoo._id]

\* the files entry /api/server-files builds for one document
fileEntry(tattoo) ==
  [name |-> <<tattoo.imageUrl.n, tattoo.imageUrl.ext>>, path |-> tattoo.imageUrl,
   used |-> TRUE, tattooId |-> tattoo._id]

\* the missingFiles array of /api/server-files
missingFiles == {}

\* GET /api/server-files: a route of the hosted variant only
ServerFiles(ok) ==
  /\ listening
  /\ last' = IF variant = "local" THEN notFound("GET /api/server-files", 0)
             ELSE IF ok /\ dbUp
             THEN Answer("GET /api/server-files", 0, 200, "", <<>>,
                         {fileEntry(t) : t \in find}, missingFiles)
             ELSE Answer("GET /api/server-files", 0, 500, "error.message", <<>>, {}, {})
  /\ req' = forget
  /\ UNCHANGED <<variant, now, records, blobs, startup, others>>

\* ------------------------------------------------------------------------
\* Specification
\* ------------------------------------------------------------------------
\* what an earlier run of the server left behind: nothing, or one document
\* whose image is gone and one image no document refers to
host == IF variant = "hosted" THEN "cloudinary" ELSE "uploads"
Dot_jpg == <<".", "j", "p", "g">>
danglingRecord(h) ==
  [_id |-> 0, imageUrl |-> Locator(h, 98, Dot_jpg), price |-> Num(150 * Milli),
   time |-> Num(2 * Milli), tags |-> <<>>, createdAt |-> 0]
orphanBlob(h) == Locator(h, 99, Dot_jpg)

\* no page is open, no function is looked at on its own
NoPage == [open |-> FALSE]
NoCall == [fn |-> "", in |-> <<>>, out |-> <<>>]

Init ==
  /\ variant \in {"hosted", "local"}
  /\ now = 0
  /\ listening = FALSE
  /\ conn = Settled("idle")
  /\ \/ records = {} /\ blobs = {}
     \/ records = {danglingRecord(host)} /\ blobs = {orphanBlob(host)}
  /\ req = Idle
  /\ last = NoAnswer
  /\ page = NoPage
  /\ eval = NoCall

Ids == {d._id : d \in records} \cup {Cardinality(records)}

Next ==
  \/ Listen
  \/ ConnectResolve
  \/ ConnectReject
  \/ RetryTimer
  \/ Tick
  \/ \E r \in Requests : PostTattooHosted(r)
  \/ \E r \in Requests, diskOk \in BOOLEAN : PostTattooLocal(r, diskOk)
  \/ \E ok \in BOOLEAN : UploadSettle(ok)
  \/ \E ok \in BOOLEAN : SaveSettle(ok)
  \/ \E ok \in BOOLEAN : GetTattoos(ok)
  \/ \E id \in Ids : DeleteTattoo(id)
  \/ \E ok \in BOOLEAN : ServerFiles(ok)

Spec == Init /\ [][Next]_vars

\* the promise of mongoose.connect settles, timers fire and the listener starts
FairSpec ==
  /\ Spec
  /\ WF_vars(Listen)
  /\ WF_vars(ConnectResolve \/ ConnectReject)
  /\ WF_vars(RetryTimer)

\* ------------------------------------------------------------------------
\* Vocabulary of the properties
\* ------------------------------------------------------------------------
\* the files of Files that are images of an accepted type
ImageFiles == {PhotoJpg}
\* the strings of Prices and Times that are decimal numerals, and their values
Numerals == {Str150, Str2p5, StrNeg5}
ValueOf(x) == IF x = Str150 THEN Num(150 * Milli)
              ELSE IF x = Str2p5 THEN Num(2 * Milli + Milli \div 2)
              ELSE Num((0 - 5) * Milli)
\* a field that is present and is the numeral of a finite number >= 0
NonNegativeNumeral(x) == x \in Numerals /\ ValueOf(x).v >= 0
\* a stored number that is >= 0
NonNegative(x) == (x.k = "num" /\ x.v >= 0) \/ (x.k = "inf" /\ x.v = 1)

\* the request r arrives in this step
Posted(r) == PostTattooHosted(r) \/ \E diskOk \in BOOLEAN : PostTattooLocal(r, diskOk)
\* the single response of the finished request
Done == req.pc = "done"
Response == req.res[Len(req.res)]
Rejected400(q) == q.pc = "done" /\ Len(q.res) = 1 /\ q.res[1].status = 400

\* ------------------------------------------------------------------------
\* C1: a POST /api/tattoos without an image part, or with a file that is not
\* an accepted image, is answered 400 and leaves the blob store and the
\* record store as they were.
\* ------------------------------------------------------------------------
C1_NonImageAnswered400 ==
  [][\A r \in Requests :
       (Posted(r) /\ r.file \notin ImageFiles)
         => (Rejected400(req') /\ blobs' = blobs /\ records' = records)]_vars

\* ------------------------------------------------------------------------
\* C2: in both variants a POST /api/tattoos (with an accepted image) whose
\* price or duration is absent or is not a finite non-negative number is
\* answered 400 before any blob is written and no record is inserted.
\* ------------------------------------------------------------------------
C2_BadNumberRejectedBeforeBlob ==
  [][\A r \in Requests :
       (Posted(r) /\ r.file \in ImageFiles
          /\ ~(NonNegativeNumeral(r.price) /\ NonNegativeNumeral(r.time)))
         => (Rejected400(req') /\ blobs' = blobs /\ records' = records)]_vars

\* ------------------------------------------------------------------------
\* C3: DELETE /api/tattoos/:id of a stored id answers success and removes
\* exactly that record; of an unknown id it reports failure and leaves the
\* records as they were.
\* ------------------------------------------------------------------------
C3_DeleteRemovesExactlyTheRecord ==
  [][\A id \in Ids :
       DeleteTattoo(id)
         => IF \E d \in records : d._id = id
            THEN last'.status = 200 /\ records' = {d \in records : d._id # id}
            ELSE last'.status # 200 /\ records' = records]_vars

\* ------------------------------------------------------------------------
\* C4: every listing GET /api/tattoos returns holds each record of the store
\* exactly once, createdAt non-increasing from first to last.
\* ------------------------------------------------------------------------
C4_ListingTotalAndSorted ==
  [][\A ok \in BOOLEAN :
       (last'.route = "GET /api/tattoos" /\ last'.status = 200 /\ GetTattoos(ok))
         => /\ Len(last'.list) = Cardinality(records)
            /\ Range(last'.list) = {toJSON(d) : d \in records}
            /\ \A i \in 1..(Len(last'.list) - 1) :
                 last'.list[i].createdAt >= last'.list[i + 1].createdAt]_vars

\* a listing of two records created at different times, after a submission
C4_Witness ==
  /\ last.route = "GET /api/tattoos" /\ last.status = 200
  /\ Len(last.list) = 2
  /\ last.list[1].createdAt > last.list[2].createdAt
  /\ last.list[1]._id # 0

\* ------------------------------------------------------------------------
\* C5: every stored record has an id of its own, a non-empty imageUrl, and a
\* price and a duration that are numbers >= 0.
\* ------------------------------------------------------------------------
C5_RecordInvariants ==
  /\ \A d, e \in records : d._id = e._id => d = e
  /\ \A d \in records :
       /\ d.imageUrl.host # ""
       /\ NonNegative(d.price)
       /\ NonNegative(d.time)

\* ------------------------------------------------------------------------
\* C6: the record of a 201 response has the price and the duration that were
\* submitted (as numbers), and its imageUrl is a stored blob; in the hosted
\* and in the local-disk variant.
\* ------------------------------------------------------------------------
C6_CreatedEqualsSubmitted ==
  (Done /\ Response.status = 201 /\ req.in.price \in Numerals /\ req.in.time \in Numerals)
    => \A t \in Response.tattoo :
         /\ t.price = ValueOf(req.in.price)
         /\ t.time = ValueOf(req.in.time)
         /\ t.imageUrl \in blobs

\* ------------------------------------------------------------------------
\* C7: GET /api/server-files, run when exactly one blob has no referencing
\* record and exactly one record references a blob that does not exist.
\* ------------------------------------------------------------------------
Orphans == {b \in blobs : \A d \in records : d.imageUrl # b}
Dangling == {d \in records : d.imageUrl \notin blobs}
OneOrphanOneDangling == Cardinality(Orphans) = 1 /\ Cardinality(Dangling) = 1
Unused(answer) == {f \in answer.files : ~f.used}

\* C7 as claimed: the answer flags exactly one file unused and lists exactly
\* one missing file.
C7_OneUnusedOneMissing ==
  [][\A ok \in BOOLEAN :
       (last'.route = "GET /api/server-files" /\ last'.status = 200
          /\ OneOrphanOneDangling /\ ServerFiles(ok))
         => (Cardinality(Unused(last')) = 1 /\ Cardinality(last'.missingFiles) = 1)]_vars

\* C7 as amended: the answer lists one file per record, the path of each the
\* imageUrl of its record, every one flagged used; no file is flagged unused
\* (the unreferenced blob is not listed) and missingFiles is empty.
C7_AllUsedNoneMissing ==
  [][\A ok \in BOOLEAN :
       (last'.route = "GET /api/server-files" /\ last'.status = 200
          /\ OneOrphanOneDangling /\ ServerFiles(ok))
         => /\ Unused(last') = {}
            /\ last'.missingFiles = {}
            /\ {<<f.tattooId, f.path>> : f \in last'.files}
                 = {<<d._id, d.imageUrl>> : d \in records}]_vars

\* /api/server-files has answered 200 over such a store
C7_Witness ==
  /\ last.route = "GET /api/server-files" /\ last.status = 200
  /\ OneOrphanOneDangling
  /\ {f.tattooId : f \in last.files} = {d._id : d \in records}

\* ------------------------------------------------------------------------
\* the steps in which the blob write or the record insert of a request fails:
\* the upload is rejected, save() is rejected, or multer cannot write the
\* accepted file to the disk
\* ------------------------------------------------------------------------
C8_WriteFails ==
  \/ req.pc = "uploading" /\ req'.pc = "done"
  \/ req.pc = "saving" /\ req'.pc = "done" /\ records' = records
  \/ /\ variant = "local" /\ req.pc \in {"idle", "done"} /\ req'.pc = "done" /\ req' # req
     /\ req'.in.file \in ImageFiles /\ filename(req'.in.file) \notin blobs'

\* C8: every POST /api/tattoos gets exactly one response: none while the
\* upload or the insert is pending, one once it is finished; 201 only when
\* the blob write and the insert both succeeded; 500 with an error field when
\* the blob write or the insert failed; and the server keeps listening.
C8_OneResponse ==
  /\ [](/\ (req.pc \in {"uploading", "saving"} => Len(req.res) = 0)
        /\ (Done => Len(req.res) = 1)
        /\ ((Done /\ Response.status = 201)
              => (req.doc # {} /\ req.doc \subseteq records
                  /\ \A d \in req.doc : d.imageUrl \in blobs)))
  /\ [][/\ (C8_WriteFails
              => (Done' /\ Len(req'.res) = 1 /\ req'.res[1].status = 500
                  /\ req'.res[1].error # ""))
         /\ (listening => listening')]_vars

\* the upload succeeded, the insert failed, and 500 was the one response
C8_Witness ==
  /\ variant = "hosted" /\ Done /\ Len(req.res) = 1 /\ Response.status = 500
  /\ req.doc # {} /\ ~(req.doc \subseteq records)
  /\ \A d \in req.doc : d.imageUrl \in blobs

\* ------------------------------------------------------------------------
\* C9: connectWithRetry makes at most 6 attempts (the attempt with
\* retryCount = k is attempt k + 1, and k <= 5); a retry is scheduled only
\* after a failed attempt; once connected or given up nothing more happens;
\* and it always ends connected or given up.
\* ------------------------------------------------------------------------
AtRest == conn.state \in {"connected", "gaveup"}

C9_BoundedAttemptsThenRest ==
  /\ [](conn.state \in {"connecting", "waiting"} => conn.retryCount + 1 <= 6)
  /\ [][/\ ((conn'.state = "connecting" /\ conn' # conn)
              => (\/ conn.state = "idle" /\ conn'.retryCount = 0
                  \/ conn.state = "waiting" /\ conn'.retryCount = conn.retryCount + 1))
         /\ ((conn'.state = "waiting" /\ conn' # conn)
              => (conn.state = "connecting" /\ conn'.retryCount = conn.retryCount))
         /\ (AtRest => conn' = conn)]_vars
  /\ <>[]AtRest

\* the sixth attempt failed and the ceiling was reached
C9_Witness == conn.state = "gaveup"

\* ------------------------------------------------------------------------
\* C10: the wait after the failure of attempt k (from 0) is
\* min(2^k * 1000, 30000) ms; the waits of a run never decrease and none
\* exceeds 30000 ms.
\* ------------------------------------------------------------------------
C10_BackoffDelays ==
  /\ [](conn.state = "waiting"
         => (/\ conn.retryDelay = (IF 2^conn.retryCount * 1000 <= 30000
                                    THEN 2^conn.retryCount * 1000 ELSE 30000)
             /\ conn.retryDelay <= 30000))
  /\ [][(conn.state = "waiting" /\ conn'.state = "connecting")
          => conn'.retryDelay >= conn.retryDelay]_vars

\* the wait after the failure of attempt 4, the last one that is waited
C10_Witness == conn.state = "waiting" /\ conn.retryCount = 4 /\ conn.retryDelay = 16000

\* ------------------------------------------------------------------------
\* C11: the listener is started before the first connection attempt; while
\* an attempt is pending, has failed or the attempts are exhausted the routes
\* still take and answer requests; and a connection attempt is started only
\* by the listen callback or by the retry timer, never by a route.
\* ------------------------------------------------------------------------
\* a call of mongoose.connect is made in this step
AttemptStarts == conn'.state = "connecting" /\ conn' # conn

\* a route handler runs in this step
Handles ==
  \/ \E r \in Requests : Posted(r)
  \/ \E ok \in BOOLEAN : UploadSettle(ok) \/ SaveSettle(ok) \/ GetTattoos(ok) \/ ServerFiles(ok)
  \/ \E id \in Ids : DeleteTattoo(id)

C11_ListenFirstConnectAtStartupOnly ==
  /\ [](conn.state # "idle" => listening)
  /\ [](listening => /\ ENABLED (\E ok \in BOOLEAN : GetTattoos(ok))
                     /\ ENABLED (\E id \in Ids : DeleteTattoo(id))
                     /\ (req.pc = "saving" => ENABLED (\E ok \in BOOLEAN : SaveSettle(ok))))
  /\ [][/\ (AttemptStarts => ((Listen \/ RetryTimer) /\ listening'))
         /\ (conn' # conn => ~Handles)]_vars

\* a listing was answered, with 500, and the attempts are exhausted
C11_Witness ==
  /\ conn.state = "gaveup" /\ listening
  /\ last.route = "GET /api/tattoos" /\ last.status = 500

\* ------------------------------------------------------------------------
\* The size of an image: the change handler of the page and the limit of
\* multer, each taken on its own for one chosen file
\* ------------------------------------------------------------------------
\* limits: { fileSize: 5 * 1024 * 1024 }
fileSize == 5 * 1024 * 1024

\* mutant of multerLimit: a file of exactly the limit is refused too
multerLimit_atLimit(size) == IF size >= fileSize THEN "LIMIT_FILE_SIZE" ELSE "accepted"

\* multer with limits.fileSize: a file of more bytes than the limit ends the
\* upload with LIMIT_FILE_SIZE
multerLimit(size) == IF size > fileSize THEN "LIMIT_FILE_SIZE" ELSE "accepted"

\* /iPad|iPhone|iPod/.test(navigator.userAgent)
iOSDevices == {<<"i", "P", "a", "d">>, <<"i", "P", "h", "o", "n", "e">>, <<"i", "P", "o", "d">>}
isIOS(userAgent) == RegexTest(iOSDevices, userAgent)

\* the change handler of imageUpload: what it does with e.target.files[0]
imageChange(file, userAgent) ==
  IF ~file.present THEN "nothing"
  ELSE IF ~Contains(file.type, <<"i", "m", "a", "g", "e">>) THEN "alert: not an image"
  ELSE IF file.size > 5 * 1024 * 1024 /\ isIOS(userAgent) THEN "alert: too large"
  ELSE "preview"

\* the user agents and the chosen files looked at
UserAgents == {<<"i", "P", "h", "o", "n", "e">>, <<"i", "P", "a", "d">>,
               <<"A", "n", "d", "r", "o", "i", "d">>, <<"W", "i", "n", "d", "o", "w", "s">>}
Sizes == {fileSize - 1, fileSize, fileSize + 1, 2 * fileSize}
MimeTypes == {<<"i", "m", "a", "g", "e", "/", "j", "p", "e", "g">>,
              <<"t", "e", "x", "t", "/", "p", "l", "a", "i", "n">>}
ChosenFiles == {[present |-> TRUE, type |-> t, size |-> n] : t \in MimeTypes, n \in Sizes}
                 \cup {[present |-> FALSE, type |-> <<>>, size |-> 0]}
ImageCalls == {[fn |-> "image", in |-> [file |-> f, userAgent |-> u],
                out |-> [client |-> "", server |-> ""]] : f \in ChosenFiles, u \in UserAgents}

\* the file is chosen in the page: the change handler runs
ImageChange ==
  /\ eval.fn = "image" /\ eval.out.client = ""
  /\ eval' = [eval EXCEPT !.out.client = imageChange(eval.in.file, eval.in.userAgent)]
  /\ UNCHANGED <<srv, startup, page>>

\* the file is sent as the image part of a submission: multer reads it
MulterUpload ==
  /\ eval.fn = "image" /\ eval.out.server = "" /\ eval.in.file.present
  /\ eval' = [eval EXCEPT !.out.server = multerLimit(eval.in.file.size)]
  /\ UNCHANGED <<srv, startup, page>>

\* ------------------------------------------------------------------------
\* The tags of a submission: the expression both handlers store, taken on
\* its own for one raw tags field
\* ------------------------------------------------------------------------
MaxTagLen == 4

\* the raw strings a tags field may hold, up to MaxTagLen characters
TagAlphabet == {"a", "b", ",", " ", "\t"}
RawTags == UNION {[1..n -> TagAlphabet] : n \in 0..MaxTagLen}
TagCalls == {[fn |-> "tags", in |-> t, out |-> <<>>] : t \in RawTags \cup {undefined}}

\* tags ? tags.split(',').map(tag => tag.trim()) : [] is evaluated
ParseTags ==
  /\ eval.fn = "tags" /\ eval.out = <<>>
  /\ eval' = [eval EXCEPT !.out = <<parseTags(eval.in)>>]
  /\ UNCHANGED <<srv, startup, page>>

\* ------------------------------------------------------------------------
\* formatTime of the page, taken on its own for one duration
\* ------------------------------------------------------------------------
MaxHours == 2

\* Math.round(n / d) for n >= 0: the nearest integer.  A product that is
\* half-way in exact arithmetic is not exactly half-way as a binary double
\* ((1.025 - 1) * 60 is 1.4999999999999947), so it falls on either side: up
\* says on which
Math_round(n, d, up) ==
  IF 2 * (n % d) = d THEN (n \div d) + (IF up THEN 1 ELSE 0)
  ELSE (2 * n + d) \div (2 * d)

\* what formatTime renders: the hours part with its unit, the minutes part
Rendering(hrs, unit, min) == [hrs |-> hrs, unit |-> unit, min |-> min]
hourText(wholeHours) ==
  IF wholeHours = 1 THEN Rendering(<<1>>, "hr", <<>>) ELSE Rendering(<<wholeHours>>, "hrs", <<>>)

\* formatTime(hours)
formatTime(hours, up) ==
  IF hours = Num(Milli) THEN Rendering(<<1>>, "hr", <<>>)
  ELSE IF hours.v % Milli = 0 THEN Rendering(<<hours.v \div Milli>>, "hrs", <<>>)
  ELSE LET wholeHours == hours.v \div Milli
           remainingMinutes == Math_round((hours.v - wholeHours * Milli) * 60, Milli, up)
       IN IF wholeHours = 0 THEN Rendering(<<>>, "", <<remainingMinutes>>)
          ELSE IF remainingMinutes = 0 THEN hourText(wholeHours)
          ELSE [hourText(wholeHours) EXCEPT !.min = <<remainingMinutes>>]

\* the durations looked at: 0.001 to MaxHours hours in steps of 0.001
Durations == {Num(v) : v \in 1..(MaxHours * Milli)}
FormatCalls == {[fn |-> "formatTime", in |-> h, out |-> <<>>] : h \in Durations}

\* displayTattoos renders the duration of a record
FormatTime ==
  /\ eval.fn = "formatTime" /\ eval.out = <<>>
  /\ \E up \in BOOLEAN : eval' = [eval EXCEPT !.out = <<formatTime(eval.in, up)>>]
  /\ UNCHANGED <<srv, startup, page>>

\* ------------------------------------------------------------------------
\* The specification of the functions taken on their own: the server is not
\* started and no page is open
\* ------------------------------------------------------------------------
FunctionInit ==
  /\ variant = "hosted" /\ now = 0 /\ listening = FALSE /\ conn = Settled("idle")
  /\ records = {} /\ blobs = {} /\ req = Idle /\ last = NoAnswer
  /\ page = NoPage
  /\ \/ eval \in ImageCalls
     \/ eval \in TagCalls
     \/ eval \in FormatCalls

FunctionNext == ImageChange \/ MulterUpload \/ ParseTags \/ FormatTime

FunctionSpec == FunctionInit /\ [][FunctionNext]_vars

\* ------------------------------------------------------------------------
\* The page: src/public/app.js, served by the hosted variant
\* ------------------------------------------------------------------------
MaxPulls == 1       \* pull-to-refresh gestures that reach fetchTattoos

\* the innerHTML of the submit button as the document has it (the script
\* only copies it into originalBtnText: the value stands for that markup),
\* and as the submit handler sets it while it waits
OriginalLabel == "markup of the submit button"
SavingLabel == "<span class=\"loading-spinner\"></span> Saving..."

\* new FormData(tattooForm): price, timeInHours, tags and the name of the
\* chosen image, the empty string for a field left empty
Form(price, time, tags, name) ==
  [price |-> price, timeInHours |-> time, tags |-> tags, image |-> name]
EmptyForm == Form(<<>>, <<>>, <<>>, <<>>)
Forms == {Form(Str150, Str2p5, StrTags, PhotoJpg.originalname),
          Form(<<>>, Str2p5, StrTags, PhotoJpg.originalname),
          Form(Str150, <<>>, StrTags, PhotoJpg.originalname),
          Form(Str150, Str2p5, StrTags, <<>>)}

\* the multipart request fetch sends for a FormData: the image part is the
\* chosen file
RequestOf(formData) ==
  Request(IF formData.image = <<>> THEN NoFile ELSE PhotoJpg,
          formData.price, formData.timeInHours, formData.tags)

\* the submit handler is not running
NoSubmit == [pc |-> "idle", originalBtnText |-> "", formData |-> EmptyForm, response |-> <<>>]

\* tattooList.innerHTML: the loading indicator, the error paragraph, the
\* paragraph for an empty list, or the items of displayTattoos
Loading == [kind |-> "loading", tattoos |-> <<>>]
ErrorLoading == [kind |-> "error", tattoos |-> <<>>]
displayTattoos(tattoos) ==
  IF Len(tattoos) = 0 THEN [kind |-> "empty", tattoos |-> <<>>]
  ELSE [kind |-> "items", tattoos |-> tattoos]

\* what a call of fetchTattoos writes when it ends: fetch or response.json()
\* rejected (no response), the status is not ok, or the list is displayed
listOutcome(response) ==
  IF response = <<>> THEN ErrorLoading
  ELSE IF response[1].status # 200 THEN ErrorLoading
  ELSE displayTattoos(response[1].list)

\* a call of fetchTattoos that waits for fetch; latest: no call was made
\* after it.  The calls that have not ended are a bag: nothing orders them
Call(latest) == [pc |-> "sent", response |-> <<>>, latest |-> latest]
Replace(calls, c, d) == (calls (-) SetToBag({c})) (+) SetToBag({d})
Superseded(calls) ==
  IF \E c \in BagToSet(calls) : c.latest
  THEN LET c == CHOOSE x \in BagToSet(calls) : x.latest
       IN Replace(calls, c, [c EXCEPT !.latest = FALSE])
  ELSE calls

\* fetchTattoos() up to its first await: the loading indicator is shown and
\* the request is sent; p.calls holds the calls that have not ended, and
\* p.answer what the latest call received once it has ended
fetchTattoos(p) ==
  [p EXCEPT !.tattooList = Loading,
            !.calls = Superseded(@) (+) SetToBag({Call(TRUE)}),
            !.answer = <<>>]

\* the call c of p.calls ends having received response (none when fetch or
\* response.json() rejected): it writes the list and is gone
fetchTattoosEnds(p, c, response) ==
  [p EXCEPT !.tattooList = listOutcome(response),
            !.calls = @ (-) SetToBag({c}),
            !.answer = IF c.latest THEN <<response>> ELSE @]

\* mutant of finally: the button is enabled but its label is not put back
finally_labelLeft(p) ==
  [p EXCEPT !.submitBtn = [disabled |-> FALSE, innerHTML |-> p.submitBtn.innerHTML],
            !.submit = NoSubmit]

\* finally { submitBtn.disabled = false; submitBtn.innerHTML = originalBtnText }
\* and the handler returns
finally(p) ==
  [p EXCEPT !.submitBtn = [disabled |-> FALSE, innerHTML |-> p.submit.originalBtnText],
            !.submit = NoSubmit]

\* DOMContentLoaded: isIOS is computed and fetchTattoos() is called
DOMContentLoaded(userAgent) ==
  /\ ~page.open
  /\ page' = fetchTattoos([open |-> TRUE, isIOS |-> isIOS(userAgent),
                           submitBtn |-> [disabled |-> FALSE, innerHTML |-> OriginalLabel],
                           submit |-> NoSubmit, calls |-> EmptyBag, answer |-> <<>>,
                           tattooList |-> Loading, pulls |-> 0])
  /\ UNCHANGED <<srv, startup, eval>>

\* the submit event of tattooForm filled in as formData, up to the first
\* await; a form whose submit button is disabled is not submitted.  An
\* alert(...) is shown and dismissed: it leaves nothing on the page
Submit(formData) ==
  /\ page.open /\ page.submit.pc = "idle" /\ ~page.submitBtn.disabled
  /\ LET price == formData.price
         time == formData.timeInHours
         image == [name |-> formData.image]
     IN IF Falsy(price) \/ Falsy(time) \/ Falsy(image.name)
        THEN page' = page
        ELSE page' = [page EXCEPT
                        !.submitBtn = [disabled |-> TRUE, innerHTML |-> SavingLabel],
                        !.submit = [pc |-> IF page.isIOS THEN "delay" ELSE "sent",
                                    originalBtnText |-> page.submitBtn.innerHTML,
                                    formData |-> formData, response |-> <<>>]]
  /\ UNCHANGED <<srv, startup, eval>>

\* the setTimeout of 100 ms on iOS fires: fetch('/api/tattoos', {method: 'POST'})
DelayTimer ==
  /\ page.open /\ page.submit.pc = "delay"
  /\ page' = [page EXCEPT !.submit.pc = "sent"]
  /\ UNCHANGED <<srv, startup, eval>>

\* where the submit handler stands once the server has taken a step on its
\* request: fetch resolves when the response is sent
Awaiting(p, q) ==
  IF q.pc = "done" THEN [p EXCEPT !.submit.pc = "json", !.submit.response = <<q.res[Len(q.res)]>>]
  ELSE [p EXCEPT !.submit.pc = "arrived"]

\* the POST of the page reaches the server
PostArrives ==
  /\ page.open /\ page.submit.pc = "sent"
  /\ HandlePost(RequestOf(page.submit.formData))
  /\ page' = Awaiting(page, req')
  /\ eval' = eval

\* the server goes on with the request of the page
PostUploadSettle(ok) ==
  /\ page.open /\ page.submit.pc = "arrived"
  /\ HandleUpload(ok)
  /\ page' = Awaiting(page, req')
  /\ eval' = eval

PostSaveSettle(ok) ==
  /\ page.open /\ page.submit.pc = "arrived"
  /\ HandleSave(ok)
  /\ page' = Awaiting(page, req')
  /\ eval' = eval

\* fetch rejects (the network fails): catch, alert, finally
PostFails ==
  /\ page.open /\ page.submit.pc \in {"sent", "arrived"}
  /\ page' = finally(page)
  /\ UNCHANGED <<srv, startup, eval>>

\* response.json() settles, and the handler runs to its end
PostJson(parsed) ==
  /\ page.open /\ page.submit.pc = "json"
  /\ LET response == page.submit.response[1]
     IN page' =
          IF ~parsed THEN finally(page)
          ELSE IF response.status \notin 200..299 THEN finally(page)
          ELSE finally(fetchTattoos(page))
  /\ UNCHANGED <<srv, startup, eval>>

\* touchend: pulled down by more than 100px at the top of the page
TouchEnd(diff, scrollY) ==
  /\ page.open /\ page.pulls < MaxPulls
  /\ page' = IF diff > 100 /\ scrollY = 0
             THEN [fetchTattoos(page) EXCEPT !.pulls = @ + 1]
             ELSE page
  /\ UNCHANGED <<srv, startup, eval>>

\* the server goes on with a request whose fetch the page has given up
Abandoned(ok) ==
  /\ page.open /\ page.submit.pc # "arrived"
  /\ UploadSettle(ok) \/ SaveSettle(ok)

\* the GET of a call of fetchTattoos reaches the server and is answered
ListArrives(ok) ==
  /\ page.open
  /\ \E c \in BagToSet(page.calls) :
       /\ c.pc = "sent"
       /\ HandleList(ok)
       /\ page' = [page EXCEPT !.calls =
                      Replace(@, c, [c EXCEPT !.pc = "answered",
                                              !.response = <<[status |-> last'.status,
                                                              list |-> last'.list]>>])]
  /\ eval' = eval

\* fetch rejects in a call: the catch shows the error paragraph
ListFails ==
  /\ page.open
  /\ \E c \in BagToSet(page.calls) :
       c.pc = "sent" /\ page' = fetchTattoosEnds(page, c, <<>>)
  /\ UNCHANGED <<srv, startup, eval>>

\* fetch and response.json() of a call settle, and the call runs to its
\* end: the list is displayed, or the catch shows the error paragraph
ListSettle(parsed) ==
  /\ page.open
  /\ \E c \in BagToSet(page.calls) :
       /\ c.pc = "answered"
       /\ page' = fetchTattoosEnds(page, c, IF parsed THEN c.response ELSE <<>>)
  /\ UNCHANGED <<srv, startup, eval>>

\* a click on the delete button of a displayed item, confirmed or not: the
\* DELETE is sent and answered, and the handler runs to its end
DeleteClick(id, confirmed) ==
  /\ page.open /\ page.tattooList.kind = "items"
  /\ \E i \in 1..Len(page.tattooList.tattoos) : page.tattooList.tattoos[i]._id = id
  /\ IF confirmed
     THEN /\ HandleDelete(id)
          /\ page' = IF last'.status \in 200..299 THEN fetchTattoos(page)
                     ELSE page
     ELSE UNCHANGED <<srv, startup, page>>
  /\ eval' = eval

\* ------------------------------------------------------------------------
\* The specification of the page: the server listens and is connected, the
\* store holds earlier records and has room for one more, the document is
\* about to load
\* ------------------------------------------------------------------------
earlierRecords ==
  {[danglingRecord("cloudinary") EXCEPT !._id = i, !.createdAt = 0 - i] : i \in 0..(MaxRecords - 2)}

PageInit ==
  /\ variant = "hosted" /\ now = 1 /\ listening = TRUE /\ conn = Settled("connected")
  /\ records = earlierRecords /\ blobs = {orphanBlob("cloudinary")}
  /\ req = Idle /\ last = NoAnswer
  /\ page = NoPage /\ eval = NoCall

PageNext ==
  \/ \E userAgent \in UserAgents : DOMContentLoaded(userAgent)
  \/ \E formData \in Forms : Submit(formData)
  \/ DelayTimer
  \/ PostArrives
  \/ \E ok \in BOOLEAN : PostUploadSettle(ok)
  \/ \E ok \in BOOLEAN : PostSaveSettle(ok)
  \/ PostFails
  \/ \E parsed \in BOOLEAN : PostJson(parsed)
  \/ \E ok \in BOOLEAN : Abandoned(ok)
  \/ \E diff \in {50, 150}, scrollY \in {0, 10} : TouchEnd(diff, scrollY)
  \/ \E ok \in BOOLEAN : ListArrives(ok)
  \/ ListFails
  \/ \E parsed \in BOOLEAN : ListSettle(parsed)
  \/ \E id \in Ids, confirmed \in BOOLEAN : DeleteClick(id, confirmed)

PageSpec == PageInit /\ [][PageNext]_vars

\* timers fire, and the request of a submit settles: it is answered, or
\* fetch rejects
PageFairSpec ==
  /\ PageSpec
  /\ WF_vars(DelayTimer)
  /\ WF_vars(PostArrives \/ PostFails
               \/ (\E ok \in BOOLEAN : PostUploadSettle(ok) \/ PostSaveSettle(ok))
               \/ (\E parsed \in BOOLEAN : PostJson(parsed)))

\* ------------------------------------------------------------------------
\* C12: for every image size in bytes the pre-check of the change handler
\* and the upload limit of the server agree: each rejects exactly the images
\* of more than 5 * 1024 * 1024 bytes, on every client device.
\* ------------------------------------------------------------------------
\* an image file was chosen and both the page and multer have looked at it
ImageJudged ==
  /\ eval.fn = "image" /\ eval.in.file.present
  /\ eval.in.file.type = <<"i", "m", "a", "g", "e", "/", "j", "p", "e", "g">>
  /\ eval.out.client # "" /\ eval.out.server # ""
ClientRejects == eval.out.client = "alert: too large"
ServerRejects == eval.out.server = "LIMIT_FILE_SIZE"
OnIOS == \E d \in {<<"i", "P", "a", "d">>, <<"i", "P", "h", "o", "n", "e">>, <<"i", "P", "o", "d">>} :
           Contains(eval.in.userAgent, d)

C12_SizeChecksAgreeOnEveryDevice ==
  ImageJudged => /\ (ClientRejects <=> eval.in.file.size > 5 * 1024 * 1024)
                 /\ (ServerRejects <=> eval.in.file.size > 5 * 1024 * 1024)

\* C12 as amended: the server rejects exactly the images of more than
\* 5 * 1024 * 1024 bytes; on an iOS device (user agent with iPad, iPhone or
\* iPod) the pre-check rejects exactly the same images; on any other device
\* the pre-check rejects no image for its size.
C12_SizeChecksAgreeOnIOS ==
  ImageJudged => /\ (ServerRejects <=> eval.in.file.size > 5 * 1024 * 1024)
                 /\ (OnIOS => (ClientRejects <=> ServerRejects))
                 /\ (~OnIOS => ~ClientRejects)

\* an image one byte over the limit, chosen on an iPhone: both reject it
C12_Witness ==
  /\ ImageJudged /\ OnIOS /\ eval.in.file.size = 5 * 1024 * 1024 + 1
  /\ ClientRejects /\ ServerRejects

\* ------------------------------------------------------------------------
\* C15: for every raw tags string the stored tags are the pieces between its
\* commas, each without its leading and trailing whitespace, in the original
\* order and count, an empty piece kept as the empty string; an absent tags
\* field gives the empty sequence.
\* ------------------------------------------------------------------------
CommasOf(t) == {i \in 1..Len(t) : t[i] = ","}
NthComma(t, k) == CHOOSE i \in CommasOf(t) : Cardinality({j \in CommasOf(t) : j <= i}) = k
\* the k-th piece of t: what stands between comma k - 1 and comma k
Piece(t, k) ==
  LET a == IF k = 1 THEN 1 ELSE NthComma(t, k - 1) + 1
      b == IF k = Cardinality(CommasOf(t)) + 1 THEN Len(t) ELSE NthComma(t, k) - 1
  IN IF a <= b THEN SubSeq(t, a, b) ELSE <<>>
\* q is p without its leading and trailing whitespace
IsTrimOf(q, p) ==
  /\ q = <<>> \/ (q[1] \notin {" ", "\t"} /\ q[Len(q)] \notin {" ", "\t"})
  /\ \E i \in 0..(Len(p) - Len(q)) :
       /\ \A j \in 1..Len(q) : p[i + j] = q[j]
       /\ \A j \in 1..Len(p) : (j <= i \/ j > i + Len(q)) => p[j] \in {" ", "\t"}
PiecesOf(tags, t) ==
  /\ Len(tags) = Cardinality(CommasOf(t)) + 1
  /\ \A k \in 1..Len(tags) : IsTrimOf(tags[k], Piece(t, k))
TagsParsed == eval.fn = "tags" /\ eval.out # <<>>

C15_TagsSplitAndTrimmed ==
  TagsParsed => IF eval.in = <<"undefined">> THEN eval.out[1] = <<>>
                ELSE PiecesOf(eval.out[1], eval.in)

\* C15 as amended: an absent or empty tags field gives the empty sequence;
\* every other raw tags string gives its pieces as the claim says.
C15_TagsSplitAndTrimmedUnlessEmpty ==
  TagsParsed => IF eval.in = <<"undefined">> \/ eval.in = <<>> THEN eval.out[1] = <<>>
                ELSE PiecesOf(eval.out[1], eval.in)

\* " a,," was parsed: three pieces, the last two empty
C15_Witness ==
  /\ TagsParsed /\ eval.in = <<" ", "a", ",", ",">>
  /\ eval.out[1] = << <<"a">>, <<>>, <<>> >>

\* ------------------------------------------------------------------------
\* C18: for every positive duration that is not a whole number of hours (in
\* steps of 0.001 hour) formatTime renders a minutes part from 1 to 59, and
\* the hours part plus the minutes part is the duration rounded to the
\* nearest minute; it never renders "60 min" or "0 min".
\* ------------------------------------------------------------------------
C18_MinutesFrom1To59 ==
  (eval.fn = "formatTime" /\ eval.out # <<>> /\ eval.in.v % 1000 # 0)
    => LET r == eval.out[1]
           h == IF r.hrs = <<>> THEN 0 ELSE r.hrs[1]
       IN /\ r.min # <<>>
          /\ r.min[1] \in 1..59
          /\ 2 * ((h * 60 + r.min[1]) * 1000 - eval.in.v * 60) \in (0 - 1000)..1000

\* ------------------------------------------------------------------------
\* C13: in the hosted variant a record is inserted only after the blob write
\* of the same request has succeeded, and its imageUrl is the locator that
\* write returned; when the blob write succeeds and the insert then fails
\* nothing is rolled back: the blob stays in the blob store, no record
\* refers to it, and the request is answered 500.
\* ------------------------------------------------------------------------
C13_InsertAfterBlobNoRollback ==
  [][variant = "hosted" =>
       /\ ((req.pc = "uploading" /\ req'.pc = "saving")
             => \E b \in blobs' \ blobs :
                  /\ blobs' = blobs \cup {b}
                  /\ \A d \in req'.doc : d.imageUrl = b)
       /\ (records' # records
             => /\ req.pc = "saving" /\ req.doc # {}
                /\ records' = records \cup req.doc
                /\ \A d \in req.doc : d.imageUrl \in blobs /\ d.imageUrl \in blobs')
       /\ ((req.pc = "saving" /\ req'.pc = "done" /\ records' = records)
             => /\ blobs' = blobs
                /\ \A d \in req.doc :
                     /\ d.imageUrl \in blobs'
                     /\ \A t \in records' : t.imageUrl # d.imageUrl
                /\ Len(req'.res) = 1 /\ req'.res[1].status = 500)
       /\ (req.pc = "saving" => (req'.doc = req.doc /\ blobs \subseteq blobs'))]_vars

\* the image of a refused insert is in the blob store and no record has it
C13_Witness ==
  /\ variant = "hosted" /\ req.pc = "done" /\ req.doc # {}
  /\ req.res[1].status = 500 /\ conn.state = "connected"
  /\ \A d \in req.doc : d.imageUrl \in blobs /\ \A t \in records : t.imageUrl # d.imageUrl
  /\ records # {}

\* ------------------------------------------------------------------------
\* C14: a submission is validated in the order image, price, duration: the
\* 400 of a request that breaks several rules names the first rule broken in
\* that order; a request without a price and with a duration that does not
\* parse is reported as a price failure.
\* ------------------------------------------------------------------------
\* the 400 answers of the handlers, by the rule they report
ImageError == "No image uploaded"
PriceError == "Price and time are required"
DurationError == "Time must be a valid number"

C14_FirstBrokenRuleReported ==
  [][\A r \in Requests :
       Posted(r) =>
         /\ (~r.file.present => (Rejected400(req') /\ req'.res[1].error = ImageError))
         /\ ((r.file \in ImageFiles /\ Falsy(r.price))
               => (Rejected400(req') /\ req'.res[1].error = PriceError))]_vars

\* ------------------------------------------------------------------------
\* C16: a submit that passes the required-field check disables the submit
\* button before the POST is sent; the button stays disabled until the
\* request settles and is then enabled again with its original label,
\* whatever the outcome (201, error status, body that does not parse,
\* network failure); a submit that fails the check sends no request and
\* does not disable the button.
\* ------------------------------------------------------------------------
\* the submit handler waits: for its timer, for fetch or for response.json()
SubmitPending == page.open /\ page.submit.pc \in {"delay", "sent", "arrived", "json"}
\* a POST /api/tattoos is taken in by the server in this step
PostTakenIn == req.pc \in {"idle", "done"} /\ req'.pc # "idle" /\ req' # req
\* formData does not pass the check of the submit handler
Incomplete(formData) ==
  formData.price = <<>> \/ formData.timeInHours = <<>> \/ formData.image = <<>>

C16_ButtonDisabledUntilSettled ==
  /\ [](page.open => /\ (page.submitBtn.disabled <=> SubmitPending)
                     /\ (~SubmitPending => page.submitBtn.innerHTML = OriginalLabel))
  /\ [][/\ (PostTakenIn => (page.submitBtn.disabled /\ page'.submitBtn.disabled))
         /\ (\A formData \in Forms :
               Submit(formData)
                 => (/\ req' = req
                     /\ IF Incomplete(formData)
                        THEN page'.submitBtn = page.submitBtn /\ ~SubmitPending'
                        ELSE page'.submitBtn.disabled /\ SubmitPending'))]_vars
  /\ (SubmitPending ~> ~SubmitPending)

\* the POST was answered 201 and the button is enabled again
C16_Witness ==
  /\ page.open /\ ~page.submitBtn.disabled /\ page.submitBtn.innerHTML = OriginalLabel
  /\ req.pc = "done" /\ req.res[1].status = 201
  /\ \E c \in BagToSet(page.calls) : c.latest

\* ------------------------------------------------------------------------
\* C17: when calls of fetchTattoos overlap (first load, refresh after a
\* submit, after a delete, pull-to-refresh), once all of them have ended the
\* list on the page is the response to the call made last, in whatever
\* order the responses arrive.
\* ------------------------------------------------------------------------
C17_LastCallWins ==
  (page.open /\ page.calls = EmptyBag /\ page.answer # <<>> /\ page.answer # << <<>> >>)
    => page.tattooList = listOutcome(page.answer[1])

====
